---- MODULE Spec2Model ----
(***************************************************************************)
(* Model of the cache service of jalajcodes/cache-api:                     *)
(*   src/services/cacheService.js  CacheService (set/get/delete/size/      *)
(*                                 clear/getStats/cleanupOldEntries/has)   *)
(*   src/models/cacheItem.js       the CacheItem table, whose value column *)
(*                                 is JSON text (JSON.stringify/parse)     *)
(*   src/routes/cache.js           router.get('/:key')                     *)
(* Spec runs the calls one at a time: each action is one whole call.       *)
(* FaultSpec adds the loss of the database; ConcSpec runs set calls        *)
(* concurrently, one action per database query.                            *)
(***************************************************************************)
EXTENDS Integers, Sequences, FiniteSets, TLC

(***************************************************************************)
(* Bounds of the model.                                                    *)
(***************************************************************************)
\* the configured capacities explored: MAX_CACHE_SIZE in 1..MaxCap
MaxCap == 2
\* the clock advances at most MaxTicks times
MaxTicks == 2
\* the number of callers that run set concurrently
NumCallers == 2

\* milliseconds per minute, the factor of cleanupOldEntries
MsPerMinute == 60000
\* one clock step, in milliseconds (the unit of Date.now()): a minute
TickMs == MsPerMinute
\* the default of cleanupOldEntries' parameter
DefaultMaxAgeMinutes == 60

(***************************************************************************)
(* JavaScript values.  A value is a record with a type tag t; n holds a    *)
(* number (or 0/1 for a boolean), s the characters of a string, e the      *)
(* elements of an array or the member values of an object, k the member    *)
(* names of an object.  Strings are sequences of one-character strings.    *)
(***************************************************************************)
Undefined == [t |-> "undefined", n |-> 0, s |-> <<>>, e |-> <<>>, k |-> <<>>]
Null == [t |-> "null", n |-> 0, s |-> <<>>, e |-> <<>>, k |-> <<>>]
Bool(b) == [t |-> "boolean", n |-> IF b THEN 1 ELSE 0, s |-> <<>>, e |-> <<>>, k |-> <<>>]
Num(x) == [t |-> "number", n |-> x, s |-> <<>>, e |-> <<>>, k |-> <<>>]
Str(chars) == [t |-> "string", n |-> 0, s |-> chars, e |-> <<>>, k |-> <<>>]
Arr(elems) == [t |-> "array", n |-> 0, s |-> <<>>, e |-> elems, k |-> <<>>]
Obj(names, vals) == [t |-> "object", n |-> 0, s |-> <<>>, e |-> vals, k |-> names]
\* the exception JSON.parse throws on malformed text
SyntaxError == [t |-> "SyntaxError", n |-> 0, s |-> <<>>, e |-> <<>>, k |-> <<>>]

\* JavaScript's !v
Falsy(v) ==
  \/ v.t \in {"undefined", "null"}
  \/ v.t = "boolean" /\ v.n = 0
  \/ v.t = "number" /\ v.n = 0
  \/ v.t = "string" /\ v.s = <<>>

(***************************************************************************)
(* JSON.stringify and JSON.parse, on sequences of characters.              *)
(***************************************************************************)
DQ == "\""
BS == "\\"
Digits == <<"0", "1", "2", "3", "4", "5", "6", "7", "8", "9">>
IsDigit(c) == \E d \in 1..10 : Digits[d] = c
DigitVal(c) == (CHOOSE d \in 1..10 : Digits[d] = c) - 1

RECURSIVE NatText(_)
NatText(x) ==
  IF x < 10 THEN <<Digits[x + 1]>>
  ELSE NatText(x \div 10) \o <<Digits[(x % 10) + 1]>>

NumText(x) == IF x < 0 THEN <<"-">> \o NatText(0 - x) ELSE NatText(x)

RECURSIVE EscapeChars(_)
EscapeChars(chars) ==
  IF chars = <<>> THEN <<>>
  ELSE (IF Head(chars) \in {DQ, BS} THEN <<BS, Head(chars)>> ELSE <<Head(chars)>>)
       \o EscapeChars(Tail(chars))

QuoteString(chars) == <<DQ>> \o EscapeChars(chars) \o <<DQ>>

RECURSIVE JSONStringify(_)
RECURSIVE StringifyElems(_)
RECURSIVE StringifyMembers(_, _)

StringifyElems(elems) ==
  IF elems = <<>> THEN <<>>
  ELSE JSONStringify(Head(elems))
       \o (IF Tail(elems) = <<>> THEN <<>> ELSE <<",">> \o StringifyElems(Tail(elems)))

StringifyMembers(names, vals) ==
  IF names = <<>> THEN <<>>
  ELSE QuoteString(Head(names)) \o <<":">> \o JSONStringify(Head(vals))
       \o (IF Tail(names) = <<>> THEN <<>>
           ELSE <<",">> \o StringifyMembers(Tail(names), Tail(vals)))

JSONStringify(v) ==
  CASE v.t = "null" -> <<"n", "u", "l", "l">>
    [] v.t = "boolean" -> IF v.n = 1 THEN <<"t", "r", "u", "e">>
                          ELSE <<"f", "a", "l", "s", "e">>
    [] v.t = "number" -> NumText(v.n)
    [] v.t = "string" -> QuoteString(v.s)
    [] v.t = "array" -> <<"[">> \o StringifyElems(v.e) \o <<"]">>
    [] v.t = "object" -> <<"{">> \o StringifyMembers(v.k, v.e) \o <<"}">>

\* a parse result: ok, the value read, and the position after it
ParseOk(v, next) == [ok |-> TRUE, v |-> v, next |-> next]
ParseFail == [ok |-> FALSE, v |-> Undefined, next |-> 0]
Expect(text, i, word) ==
  /\ i + Len(word) - 1 <= Len(text)
  /\ SubSeq(text, i, i + Len(word) - 1) = word

RECURSIVE ParseValue(_, _)
RECURSIVE ParseDigits(_, _, _)
RECURSIVE ParseChars(_, _, _)
RECURSIVE ParseElems(_, _, _)
RECURSIVE ParseMembers(_, _, _, _)

\* i is a digit's position; acc the number read so far
ParseDigits(text, i, acc) ==
  IF i <= Len(text) /\ IsDigit(text[i])
  THEN ParseDigits(text, i + 1, acc * 10 + DigitVal(text[i]))
  ELSE ParseOk(Num(acc), i)

\* i is the position after the opening quote or after the last character read
ParseChars(text, i, acc) ==
  IF i > Len(text) THEN ParseFail
  ELSE IF text[i] = DQ THEN ParseOk(Str(acc), i + 1)
  ELSE IF text[i] = BS
       THEN IF i + 1 <= Len(text) /\ text[i + 1] \in {DQ, BS}
            THEN ParseChars(text, i + 2, Append(acc, text[i + 1]))
            ELSE ParseFail
  ELSE ParseChars(text, i + 1, Append(acc, text[i]))

\* i is the position of an element
ParseElems(text, i, acc) ==
  LET r == ParseValue(text, i) IN
  IF ~r.ok \/ r.next > Len(text) THEN ParseFail
  ELSE IF text[r.next] = "]" THEN ParseOk(Arr(Append(acc, r.v)), r.next + 1)
  ELSE IF text[r.next] = "," THEN ParseElems(text, r.next + 1, Append(acc, r.v))
  ELSE ParseFail

\* i is the position of a member's opening quote
ParseMembers(text, i, names, vals) ==
  IF i > Len(text) \/ text[i] # DQ THEN ParseFail
  ELSE LET name == ParseChars(text, i + 1, <<>>) IN
       IF ~name.ok \/ name.next > Len(text) \/ text[name.next] # ":" THEN ParseFail
       ELSE LET r == ParseValue(text, name.next + 1) IN
            IF ~r.ok \/ r.next > Len(text) THEN ParseFail
            ELSE IF text[r.next] = "}"
                 THEN ParseOk(Obj(Append(names, name.v.s), Append(vals, r.v)), r.next + 1)
            ELSE IF text[r.next] = ","
                 THEN ParseMembers(text, r.next + 1, Append(names, name.v.s),
                                   Append(vals, r.v))
            ELSE ParseFail

ParseValue(text, i) ==
  IF i > Len(text) THEN ParseFail
  ELSE IF Expect(text, i, <<"n", "u", "l", "l">>) THEN ParseOk(Null, i + 4)
  ELSE IF Expect(text, i, <<"t", "r", "u", "e">>) THEN ParseOk(Bool(TRUE), i + 4)
  ELSE IF Expect(text, i, <<"f", "a", "l", "s", "e">>) THEN ParseOk(Bool(FALSE), i + 5)
  ELSE IF IsDigit(text[i]) THEN ParseDigits(text, i, 0)
  ELSE IF text[i] = "-"
       THEN IF i + 1 <= Len(text) /\ IsDigit(text[i + 1])
            THEN LET r == ParseDigits(text, i + 1, 0) IN ParseOk(Num(0 - r.v.n), r.next)
            ELSE ParseFail
  ELSE IF text[i] = DQ THEN ParseChars(text, i + 1, <<>>)
  ELSE IF text[i] = "["
       THEN IF i + 1 <= Len(text) /\ text[i + 1] = "]" THEN ParseOk(Arr(<<>>), i + 2)
            ELSE ParseElems(text, i + 1, <<>>)
  ELSE IF text[i] = "{"
       THEN IF i + 1 <= Len(text) /\ text[i + 1] = "}" THEN ParseOk(Obj(<<>>, <<>>), i + 2)
            ELSE ParseMembers(text, i + 1, <<>>, <<>>)
  ELSE ParseFail

JSONParse(text) ==
  LET r == ParseValue(text, 1) IN
  IF r.ok /\ r.next = Len(text) + 1 THEN r.v ELSE SyntaxError

(***************************************************************************)
(* The CacheItem table (models/cacheItem.js): a set of rows with the       *)
(* columns key (primary key), value (JSON text) and timestamp.             *)
(***************************************************************************)
\* the value column's setter: setDataValue('value', JSON.stringify(value))
ValueSetter(value) == JSONStringify(value)
\* the getter without the JSON.parse: the raw column text comes back as a string
ValueGetter_Raw(item) == Str(item.value)
\* the value column's getter: JSON.parse(getDataValue('value'))
ValueGetter(item) == JSONParse(item.value)

\* what findByPk / findOne resolve to when no row matches
NullItem == [key |-> <<>>, value |-> <<>>, timestamp |-> -1]

\* CacheItem.count()
CacheItemCount(rs) == Cardinality(rs)
\* CacheItem.count({ where: { key } })
CountWhereKey(rs, key) == Cardinality({r \in rs : r.key = key})
\* CacheItem.findByPk(key)
FindByPk(rs, key) ==
  IF \E r \in rs : r.key = key THEN CHOOSE r \in rs : r.key = key ELSE NullItem
\* a key column that is not declared primaryKey: no INSERT is rejected
CreateRejects_Never(rs, key) == FALSE
\* the primary key constraint: an INSERT of a key that has a row is rejected
CreateRejects(rs, key) == \E r \in rs : r.key = key
\* CacheItem.create({ key, value, timestamp })
Create(rs, key, value, timestamp) ==
  rs \cup {[key |-> key, value |-> ValueSetter(value), timestamp |-> timestamp]}
\* an update that writes the value but leaves the timestamp column alone
ItemUpdate_KeepsTimestamp(rs, existingItem, value, timestamp) ==
  {IF r.key = existingItem.key THEN [r EXCEPT !.value = ValueSetter(value)] ELSE r
   : r \in rs}
\* an UPDATE without its WHERE clause: every row gets the value and the timestamp
ItemUpdate_AllRows(rs, existingItem, value, timestamp) ==
  {[r EXCEPT !.value = ValueSetter(value), !.timestamp = timestamp] : r \in rs}
\* existingItem.update({ value, timestamp }): UPDATE ... WHERE key = existingItem.key
ItemUpdate(rs, existingItem, value, timestamp) ==
  {IF r.key = existingItem.key
   THEN [r EXCEPT !.value = ValueSetter(value), !.timestamp = timestamp]
   ELSE r : r \in rs}
\* a clear that deletes all rows but one
DestroyAll_LeavesOne(rs) == IF rs = {} THEN {} ELSE {CHOOSE r \in rs : TRUE}
\* a cleanup with Op.lte in place of Op.lt
DestroyOlderThan_Inclusive(rs, cutoffTime) == {r \in rs : ~(r.timestamp <= cutoffTime)}
\* CacheItem.destroy({ where: { key } }): the rows that remain
DestroyWhereKey(rs, key) == {r \in rs : r.key # key}
\* CacheItem.destroy({ where: {} }): the rows that remain
DestroyAll(rs) == {}
\* CacheItem.destroy({ where: { timestamp: { [Op.lt]: cutoffTime } } }): the rows that remain
DestroyOlderThan(rs, cutoffTime) == {r \in rs : ~(r.timestamp < cutoffTime)}
\* the oldest-item query ordered DESC instead of ASC
FindOldest_Desc(rs) ==
  IF rs = {} THEN NullItem
  ELSE CHOOSE r \in rs : \A q \in rs : r.timestamp >= q.timestamp
\* CacheItem.findOne({ order: [['timestamp', 'ASC']] })
FindOldest(rs) ==
  IF rs = {} THEN NullItem
  ELSE CHOOSE r \in rs : \A q \in rs : r.timestamp <= q.timestamp
\* CacheItem.findOne({ order: [['timestamp', 'DESC']] })
FindNewest(rs) ==
  IF rs = {} THEN NullItem
  ELSE CHOOSE r \in rs : \A q \in rs : r.timestamp >= q.timestamp

(***************************************************************************)
(* Errors are Error objects told apart by their message; a message is the  *)
(* sequence of its parts.                                                  *)
(***************************************************************************)
NoError == <<>>
KeyRequired == <<"Key is required">>
ValueRequired == <<"Value is required">>
CacheFull == <<"Cache is full">>
MaxAgePositive == <<"Max age must be positive">>
UniqueConstraint == <<"Validation error">>
\* the message of the error a query rejects with when the database is down
StoreError == <<"SQLITE_CANTOPEN: unable to open database file">>
\* the catch blocks: new Error(`Failed to ...: ${error.message}`)
Wrapped(prefix, message) == <<prefix>> \o message

(***************************************************************************)
(* State.                                                                  *)
(***************************************************************************)
VARIABLES
  rows,     \* the CacheItem table
  maxSize,  \* CacheService.maxSize
  now,      \* the clock, Date.now()
  call,     \* the last call: operation, arguments and the time it ran
  outcome,  \* what the last call returned or threw
  before,   \* the table when the last call started
  freedBy,  \* the call before the last one, if it removed a record from a full table
  storeUp,  \* whether the database answers queries (FALSE: every query rejects)
  inflight  \* the concurrent set calls, each with its progress and its result

vars == <<rows, maxSize, now, call, outcome, before, freedBy, storeUp, inflight>>

\* the inputs explored
KeyA == <<"a">>
KeyB == <<"b">>
KeyC == <<"c">>
KeyNames == {KeyA, KeyB, KeyC}
\* key arguments: three keys, the empty string and no key at all
KeyArgs == {Str(x) : x \in KeyNames} \cup {Str(<<>>), Undefined}
\* the nested value {"a":[1,"\""]}
Nested == Obj(<<KeyA>>, <<Arr(<<Num(1), Str(<<DQ>>)>>)>>)
\* value arguments: no value at all, null, the falsy 0 and a nested structure
ValueArgs == {Undefined, Null, Num(0), Nested}
\* maxAgeMinutes arguments: omitted (the default applies), or a number
AgeArgs == {Undefined, Num(-1), Num(0), Num(1), Num(2)}

\* the concurrent set calls
Callers == 1..NumCallers
\* a caller with no set call in progress
Idle ==
  [pc |-> "idle", key |-> Undefined, value |-> Undefined, count |-> -1,
   looked |-> FALSE, existingItem |-> NullItem, message |-> NoError,
   held |-> FALSE, gated |-> FALSE]

NoStats ==
  [totalItems |-> 0, oldestItemTimestamp |-> Null, newestItemTimestamp |-> Null,
   maxSize |-> 0, remainingSpace |-> 0]
Call(op, key, value, maxAge) ==
  [op |-> op, key |-> key, value |-> value, maxAge |-> maxAge, at |-> now,
   up |-> storeUp]
\* a call that returned ret
Returned(ret) ==
  [status |-> "ok", message |-> NoError, ret |-> ret, http |-> 0, stats |-> NoStats]
\* a call that threw an Error with this message
Threw(message) ==
  [status |-> "error", message |-> message, ret |-> Undefined, http |-> 0,
   stats |-> NoStats]

Init ==
  /\ rows = {}
  /\ maxSize \in 1..MaxCap
  /\ now = 0
  /\ call = [op |-> "none", key |-> Undefined, value |-> Undefined,
             maxAge |-> Undefined, at |-> 0, up |-> TRUE]
  /\ outcome = [status |-> "none", message |-> NoError, ret |-> Undefined,
                http |-> 0, stats |-> NoStats]
  /\ before = {}
  /\ freedBy = "none"
  /\ storeUp = TRUE
  /\ inflight = [p \in Callers |-> Idle]

\* the last call, when it took at least one record out of a table that held
\* exactly maxSize records
Freeing ==
  IF /\ call.op \in {"delete", "clear", "cleanupOldEntries"}
     /\ Cardinality(before) = maxSize
     /\ Cardinality(rows) < Cardinality(before)
  THEN call.op ELSE "none"

\* time passes between calls
Tick ==
  /\ now < MaxTicks * TickMs
  /\ now' = now + TickMs
  /\ UNCHANGED <<rows, maxSize, call, outcome, before, freedBy, storeUp, inflight>>

(***************************************************************************)
(* CacheService.set                                                        *)
(***************************************************************************)
\* a key check that tests key === undefined only
KeyMissing_OnlyUndefined(key) == key = Undefined
\* an admission gate with > in place of >=
AdmissionDenied_OffByOne(count, existingItem) ==
  count > maxSize /\ existingItem = NullItem
\* a catch block that wraps every error, 'Cache is full' included
SetCatch_WrapsAll(message) == Wrapped("Failed to set cache value: ", message)
\* if (!key) throw
KeyMissing(key) == Falsy(key)
\* if (value === undefined) throw
ValueMissing(value) == value = Undefined
\* if (count >= this.maxSize && !existingItem) throw
AdmissionDenied(count, existingItem) == count >= maxSize /\ existingItem = NullItem
\* a set that checks a count kept in memory and refreshed one call late (the
\* size of the table when the previous call started) instead of counting
SetThrows_StaleCount(rs, key, value) ==
  IF KeyMissing(key) THEN KeyRequired
  ELSE IF ValueMissing(value) THEN ValueRequired
  ELSE IF AdmissionDenied(Cardinality(before), FindByPk(rs, key.s)) THEN CacheFull
  ELSE NoError
\* the error thrown inside set's try block, NoError if none
SetThrows(rs, key, value) ==
  IF KeyMissing(key) THEN KeyRequired
  ELSE IF ValueMissing(value) THEN ValueRequired
  ELSE IF ~storeUp THEN StoreError
  ELSE IF AdmissionDenied(CacheItemCount(rs), FindByPk(rs, key.s)) THEN CacheFull
  ELSE IF FindByPk(rs, key.s) = NullItem /\ CreateRejects(rs, key.s) THEN UniqueConstraint
  ELSE NoError
\* set's catch block
SetCatch(message) ==
  IF message = CacheFull THEN message
  ELSE Wrapped("Failed to set cache value: ", message)
\* the table after the update-or-create of set
SetWrite(rs, key, value, timestamp) ==
  LET existingItem == FindByPk(rs, key.s) IN
  IF existingItem # NullItem THEN ItemUpdate(rs, existingItem, value, timestamp)
  ELSE Create(rs, key.s, value, timestamp)

Set(key, value) ==
  LET thrown == SetThrows(rows, key, value) IN
  /\ call' = Call("set", key, value, Undefined)
  /\ before' = rows
  /\ freedBy' = Freeing
  /\ rows' = IF thrown = NoError THEN SetWrite(rows, key, value, now) ELSE rows
  /\ outcome' = IF thrown = NoError THEN Returned(Bool(TRUE)) ELSE Threw(SetCatch(thrown))
  /\ UNCHANGED <<maxSize, now, storeUp, inflight>>

(***************************************************************************)
(* CacheService.get and router.get('/:key')                                *)
(***************************************************************************)
\* return item ? item.value : null
GetReturn(item) == IF item # NullItem THEN ValueGetter(item) ELSE Null
\* the outcome of cacheService.get(key) on the table rs
GetOutcome(rs, key) ==
  IF KeyMissing(key) THEN Threw(Wrapped("Failed to get cache value: ", KeyRequired))
  ELSE IF ~storeUp THEN Threw(Wrapped("Failed to get cache value: ", StoreError))
  ELSE LET ret == GetReturn(FindByPk(rs, key.s)) IN
       IF ret = SyntaxError
       THEN Threw(Wrapped("Failed to get cache value: ", <<"Unexpected token">>))
       ELSE Returned(ret)

\* a get that, like an LRU cache, refreshes the timestamp of the record it reads
Get_Touches(key) ==
  /\ call' = Call("get", key, Undefined, Undefined)
  /\ before' = rows
  /\ freedBy' = Freeing
  /\ outcome' = GetOutcome(rows, key)
  /\ rows' = {IF r.key = key.s THEN [r EXCEPT !.timestamp = now] ELSE r : r \in rows}
  /\ UNCHANGED <<maxSize, now, storeUp, inflight>>

Get(key) ==
  /\ call' = Call("get", key, Undefined, Undefined)
  /\ before' = rows
  /\ freedBy' = Freeing
  /\ outcome' = GetOutcome(rows, key)
  /\ UNCHANGED <<rows, maxSize, now, storeUp, inflight>>

\* the status router.get('/:key') answers with; 500 stands for next(error)
RouteGetStatus(key, got) ==
  IF Falsy(key) THEN 400
  ELSE IF got.status = "error" THEN 500
  ELSE IF got.ret = Null THEN 404
  ELSE 200

RouteGet(key) ==
  LET got == GetOutcome(rows, key) IN
  /\ call' = Call("GET /:key", key, Undefined, Undefined)
  /\ before' = rows
  /\ freedBy' = Freeing
  /\ outcome' = [got EXCEPT !.http = RouteGetStatus(key, got)]
  /\ UNCHANGED <<rows, maxSize, now, storeUp, inflight>>

(***************************************************************************)
(* CacheService.delete, size, clear, has                                   *)
(***************************************************************************)
\* deleted >= 0 in place of deleted > 0
DeleteReturn_Always(deleted) == Bool(deleted >= 0)
\* return deleted > 0
DeleteReturn(deleted) == Bool(deleted > 0)

Delete(key) ==
  /\ call' = Call("delete", key, Undefined, Undefined)
  /\ before' = rows
  /\ freedBy' = Freeing
  /\ IF KeyMissing(key)
     THEN /\ rows' = rows
          /\ outcome' = Threw(Wrapped("Failed to delete cache value: ", KeyRequired))
     ELSE IF ~storeUp
     THEN /\ rows' = rows
          /\ outcome' = Threw(Wrapped("Failed to delete cache value: ", StoreError))
     ELSE /\ rows' = DestroyWhereKey(rows, key.s)
          /\ outcome' = Returned(DeleteReturn(
                          CacheItemCount(rows) - CacheItemCount(DestroyWhereKey(rows, key.s))))
  /\ UNCHANGED <<maxSize, now, storeUp, inflight>>

Size ==
  /\ call' = Call("size", Undefined, Undefined, Undefined)
  /\ before' = rows
  /\ freedBy' = Freeing
  /\ outcome' = IF ~storeUp THEN Threw(Wrapped("Failed to get cache size: ", StoreError))
                ELSE Returned(Num(CacheItemCount(rows)))
  /\ UNCHANGED <<rows, maxSize, now, storeUp, inflight>>

Clear ==
  /\ call' = Call("clear", Undefined, Undefined, Undefined)
  /\ before' = rows
  /\ freedBy' = Freeing
  /\ IF ~storeUp
     THEN /\ rows' = rows
          /\ outcome' = Threw(Wrapped("Failed to clear cache: ", StoreError))
     ELSE /\ rows' = DestroyAll(rows)
          /\ outcome' = Returned(Undefined)
  /\ UNCHANGED <<maxSize, now, storeUp, inflight>>

\* return count > 0
HasReturn(count) == Bool(count > 0)

Has(key) ==
  /\ call' = Call("has", key, Undefined, Undefined)
  /\ before' = rows
  /\ freedBy' = Freeing
  /\ outcome' = IF KeyMissing(key)
                THEN Threw(Wrapped("Failed to check key existence: ", KeyRequired))
                ELSE IF ~storeUp
                THEN Threw(Wrapped("Failed to check key existence: ", StoreError))
                ELSE Returned(HasReturn(CountWhereKey(rows, key.s)))
  /\ UNCHANGED <<rows, maxSize, now, storeUp, inflight>>

(***************************************************************************)
(* CacheService.getStats                                                   *)
(***************************************************************************)
\* item?.timestamp || null  (a Date object is truthy whatever its time)
TimestampOrNull(item) == IF item = NullItem THEN Null ELSE Num(item.timestamp)
\* the subtraction the wrong way round: Math.max(0, total - this.maxSize)
RemainingSpace_Swapped(total) == IF total - maxSize > 0 THEN total - maxSize ELSE 0
\* Math.max(0, this.maxSize - total)
RemainingSpace(total) == IF maxSize - total > 0 THEN maxSize - total ELSE 0

StatsOf(rs) ==
  [totalItems |-> CacheItemCount(rs),
   oldestItemTimestamp |-> TimestampOrNull(FindOldest(rs)),
   newestItemTimestamp |-> TimestampOrNull(FindNewest(rs)),
   maxSize |-> maxSize,
   remainingSpace |-> RemainingSpace(CacheItemCount(rs))]

GetStats ==
  /\ call' = Call("getStats", Undefined, Undefined, Undefined)
  /\ before' = rows
  /\ freedBy' = Freeing
  /\ outcome' = IF ~storeUp THEN Threw(Wrapped("Failed to get cache stats: ", StoreError))
                ELSE [Returned(Undefined) EXCEPT !.stats = StatsOf(rows)]
  /\ UNCHANGED <<rows, maxSize, now, storeUp, inflight>>

(***************************************************************************)
(* CacheService.cleanupOldEntries                                          *)
(***************************************************************************)
\* the default parameter: maxAgeMinutes = 60 when the argument is undefined
MaxAgeMinutes(arg) == IF arg = Undefined THEN DefaultMaxAgeMinutes ELSE arg.n
\* if (maxAgeMinutes <= 0) throw
MaxAgeInvalid(maxAgeMinutes) == maxAgeMinutes <= 0
\* new Date(Date.now() - maxAgeMinutes * 60000)
CutoffTime(clock, maxAgeMinutes) == clock - maxAgeMinutes * MsPerMinute

CleanupOldEntries(arg) ==
  LET maxAgeMinutes == MaxAgeMinutes(arg)
      remaining == DestroyOlderThan(rows, CutoffTime(now, maxAgeMinutes))
  IN
  /\ call' = Call("cleanupOldEntries", Undefined, Undefined, arg)
  /\ before' = rows
  /\ freedBy' = Freeing
  /\ IF MaxAgeInvalid(maxAgeMinutes)
     THEN /\ rows' = rows
          /\ outcome' = Threw(Wrapped("Failed to cleanup old entries: ", MaxAgePositive))
     ELSE IF ~storeUp
     THEN /\ rows' = rows
          /\ outcome' = Threw(Wrapped("Failed to cleanup old entries: ", StoreError))
     ELSE /\ rows' = remaining
          /\ outcome' = Returned(Num(CacheItemCount(rows) - CacheItemCount(remaining)))
  /\ UNCHANGED <<maxSize, now, storeUp, inflight>>

(***************************************************************************)
(* The calls run one at a time.                                            *)
(***************************************************************************)
Next ==
  \/ Tick
  \/ \E key \in KeyArgs, value \in ValueArgs : Set(key, value)
  \/ \E key \in KeyArgs : Get(key)
  \/ \E key \in KeyArgs : RouteGet(key)
  \/ \E key \in KeyArgs : Delete(key)
  \/ Size
  \/ Clear
  \/ \E key \in KeyArgs : Has(key)
  \/ GetStats
  \/ \E arg \in AgeArgs : CleanupOldEntries(arg)

Spec == Init /\ [][Next]_vars

(***************************************************************************)
(* The same calls, one at a time, on a database that can go down and come  *)
(* back: while it is down every query rejects.                             *)
(***************************************************************************)
StoreFails ==
  /\ storeUp
  /\ storeUp' = FALSE
  /\ UNCHANGED <<rows, maxSize, now, call, outcome, before, freedBy, inflight>>

StoreRecovers ==
  /\ ~storeUp
  /\ storeUp' = TRUE
  /\ UNCHANGED <<rows, maxSize, now, call, outcome, before, freedBy, inflight>>

FaultNext ==
  \/ Next
  \/ StoreFails
  \/ StoreRecovers

FaultSpec == Init /\ [][FaultNext]_vars

(***************************************************************************)
(* The value round trip: set and get of one key, over a wider range of     *)
(* values than Spec explores.                                              *)
(***************************************************************************)
RoundTripValues ==
  {Null, Bool(FALSE), Bool(TRUE), Num(0), Num(-12), Num(305),
   Str(<<>>), Str(<<"n", "u", "l", "l">>), Str(<<"0">>), Str(<<DQ, BS, "a">>),
   Arr(<<>>), Arr(<<Null, Arr(<<Num(1), Str(<<",">>)>>)>>),
   Obj(<<>>, <<>>), Nested,
   Obj(<<KeyA, <<DQ>>>>, <<Bool(TRUE), Obj(<<KeyB>>, <<Str(<<"]">>)>>)>>)}

RoundTripNext ==
  \/ Tick
  \/ \E value \in RoundTripValues : Set(Str(KeyA), value)
  \/ Get(Str(KeyA))

RoundTripSpec == Init /\ [][RoundTripNext]_vars

(***************************************************************************)
(* Concurrent callers.  A set call is a sequence of database queries: the  *)
(* count and the findByPk of its Promise.all, in either order, then the    *)
(* update or the create.  Queries of other calls run in between.  delete,  *)
(* clear and cleanupOldEntries are one query each.                         *)
(* Of a call in progress, held records that the table has at some moment   *)
(* since its start held its key with its value, and gated that the table   *)
(* has at some moment held maxSize or more records and none for its key.   *)
(***************************************************************************)
ConcKeyArgs == {Str(KeyA), Str(KeyB)}
ConcValueArgs == {Num(0), Nested}
ConcAgeArgs == {Num(1)}

\* the call c, having seen the table rs
Observed(c, rs) ==
  [c EXCEPT
     !.held = @ \/ \E r \in rs : r.key = c.key.s /\ r.value = ValueSetter(c.value),
     !.gated = @ \/ ((\A r \in rs : r.key # c.key.s) /\ Cardinality(rs) >= maxSize)]

\* every call in progress, having seen the table rs
ObservedAll(calls, rs) ==
  [q \in Callers |->
     IF calls[q].pc \in {"reading", "writing"} THEN Observed(calls[q], rs) ELSE calls[q]]

\* the call c returns, throwing message unless it is NoError
Return(c, message) == [c EXCEPT !.pc = "done", !.message = message]

\* lines 18-21: the call starts; its arguments are validated
SetStart(p, key, value) ==
  LET c == [Idle EXCEPT !.key = key, !.value = value]
      thrown == IF KeyMissing(key) THEN KeyRequired
                ELSE IF ValueMissing(value) THEN ValueRequired
                ELSE NoError
  IN
  /\ inflight[p].pc = "idle"
  /\ inflight' = [inflight EXCEPT ![p] =
                   IF thrown # NoError THEN Return(c, SetCatch(thrown))
                   ELSE Observed([c EXCEPT !.pc = "reading"], rows)]
  /\ UNCHANGED <<rows, maxSize, now, call, outcome, before, freedBy, storeUp>>

\* a gate that is not applied to the reads of the call: every call goes on to
\* its write
AfterReads_NoGate(c) ==
  IF c.count = -1 \/ ~c.looked THEN c ELSE [c EXCEPT !.pc = "writing"]
\* lines 29-32, run when both queries of the Promise.all have answered: the
\* call throws 'Cache is full' or goes on to its write
AfterReads(c) ==
  IF c.count = -1 \/ ~c.looked THEN c
  ELSE IF AdmissionDenied(c.count, c.existingItem) THEN Return(c, SetCatch(CacheFull))
  ELSE [c EXCEPT !.pc = "writing"]

\* line 25: CacheItem.count() answers
SetReadCount(p) ==
  /\ inflight[p].pc = "reading"
  /\ inflight[p].count = -1
  /\ inflight' = [inflight EXCEPT ![p] =
                   AfterReads([inflight[p] EXCEPT !.count = CacheItemCount(rows)])]
  /\ UNCHANGED <<rows, maxSize, now, call, outcome, before, freedBy, storeUp>>

\* line 26: CacheItem.findByPk(key) answers
SetReadItem(p) ==
  /\ inflight[p].pc = "reading"
  /\ ~inflight[p].looked
  /\ inflight' = [inflight EXCEPT ![p] =
                   AfterReads([inflight[p] EXCEPT
                                 !.looked = TRUE,
                                 !.existingItem = FindByPk(rows, inflight[p].key.s)])]
  /\ UNCHANGED <<rows, maxSize, now, call, outcome, before, freedBy, storeUp>>

\* lines 35-48 and 49-55: the update or the create runs and the call returns
SetWriteQuery(p) ==
  LET c == inflight[p]
      rejected == c.existingItem = NullItem /\ CreateRejects(rows, c.key.s)
      written == IF c.existingItem # NullItem
                 THEN ItemUpdate(rows, c.existingItem, c.value, now)
                 ELSE IF rejected THEN rows
                 ELSE Create(rows, c.key.s, c.value, now)
  IN
  /\ c.pc = "writing"
  /\ rows' = written
  /\ inflight' = [ObservedAll(inflight, written) EXCEPT
                    ![p] = Return(Observed(c, written),
                                  IF rejected THEN SetCatch(UniqueConstraint) ELSE NoError)]
  /\ UNCHANGED <<maxSize, now, call, outcome, before, freedBy, storeUp>>

\* a delete(key) of another caller: line 83
ConcDelete(key) ==
  /\ rows' = DestroyWhereKey(rows, key.s)
  /\ inflight' = ObservedAll(inflight, rows')
  /\ UNCHANGED <<maxSize, now, call, outcome, before, freedBy, storeUp>>

\* a clear() of another caller: line 110
ConcClear ==
  /\ rows' = DestroyAll(rows)
  /\ inflight' = ObservedAll(inflight, rows')
  /\ UNCHANGED <<maxSize, now, call, outcome, before, freedBy, storeUp>>

\* a cleanupOldEntries(maxAgeMinutes) of another caller: lines 147-156
ConcCleanup(arg) ==
  /\ ~MaxAgeInvalid(MaxAgeMinutes(arg))
  /\ rows' = DestroyOlderThan(rows, CutoffTime(now, MaxAgeMinutes(arg)))
  /\ inflight' = ObservedAll(inflight, rows')
  /\ UNCHANGED <<maxSize, now, call, outcome, before, freedBy, storeUp>>

ConcNext ==
  \/ Tick
  \/ \E p \in Callers, key \in ConcKeyArgs, value \in ConcValueArgs : SetStart(p, key, value)
  \/ \E p \in Callers : SetReadCount(p)
  \/ \E p \in Callers : SetReadItem(p)
  \/ \E p \in Callers : SetWriteQuery(p)
  \/ \E key \in ConcKeyArgs : ConcDelete(key)
  \/ ConcClear
  \/ \E arg \in ConcAgeArgs : ConcCleanup(arg)

ConcSpec == Init /\ [][ConcNext]_vars

\* the table's shape
TypeOK ==
  /\ \A r \in rows : r.key \in KeyNames /\ r.timestamp \in 0..now
  /\ maxSize \in 1..MaxCap
  /\ outcome.status \in {"none", "ok", "error"}

(***************************************************************************)
(* Properties.  They speak of the last call through call, outcome, before  *)
(* and rows, in terms of the table alone.                                  *)
(***************************************************************************)
\* a key argument a call accepts: a non-empty string
ValidKey(key) == key.t = "string" /\ key.s # <<>>
\* a value argument set accepts: anything but no value at all
DefinedValue(value) == value.t # "undefined"
\* the keys that have a record in the table rs
KeysOf(rs) == {r.key : r \in rs}
\* the last call was a set with valid arguments
ValidSet == call.op = "set" /\ ValidKey(call.key) /\ DefinedValue(call.value)
\* the last call had an invalid argument
InvalidCall ==
  \/ call.op = "set" /\ (~ValidKey(call.key) \/ ~DefinedValue(call.value))
  \/ call.op \in {"get", "delete", "has"} /\ ~ValidKey(call.key)
  \/ call.op = "cleanupOldEntries" /\ call.maxAge.t = "number" /\ call.maxAge.n <= 0

\* C1: from an empty store, after any sequence of set, delete, clear and
\* cleanupOldEntries calls run one at a time, the store holds at most maxSize
\* distinct keys.
C1_CapacityInvariant == Cardinality(KeysOf(rows)) <= maxSize

\* C1 witness: a set of a new key was turned away from a store holding maxSize keys
C1_Witness ==
  /\ ValidSet
  /\ outcome.status = "error"
  /\ Cardinality(KeysOf(rows)) = maxSize
  /\ call.key.s \notin KeysOf(rows)

\* C2: a set of a key without a record, on a store holding maxSize or more
\* items, fails with the unwrapped 'Cache is full' error and leaves the store
\* as it was; no other failure of set carries that message.
C2_FullStoreRejectsNewKey ==
  /\ (ValidSet /\ call.key.s \notin KeysOf(before) /\ Cardinality(before) >= maxSize)
       => /\ outcome.status = "error"
          /\ outcome.message = <<"Cache is full">>
          /\ rows = before
  /\ (/\ call.op = "set"
      /\ outcome.status = "error"
      /\ ~(ValidSet /\ call.key.s \notin KeysOf(before) /\ Cardinality(before) >= maxSize))
       => outcome.message # <<"Cache is full">>

\* C2 witness: 'Cache is full' came out of a set on a full store that holds
\* records written earlier
C2_Witness ==
  /\ ValidSet
  /\ outcome.message = <<"Cache is full">>
  /\ Cardinality(before) = maxSize
  /\ \E r \in rows : r.timestamp < call.at

\* C3: a set of a key that has a record succeeds even on a full store, leaves
\* the number of records unchanged, and the key's record then holds the new
\* value and the time of the call.
C3_UpdateBypassesGate ==
  (ValidSet /\ call.key.s \in KeysOf(before))
    => /\ outcome.status = "ok"
       /\ Cardinality(rows) = Cardinality(before)
       /\ \A r \in rows :
            r.key = call.key.s
              => r.timestamp = call.at /\ r.value = JSONStringify(call.value)
       /\ \E r \in rows : r.key = call.key.s

\* C3 witness: on a full store, a record with another value and an older
\* timestamp was overwritten
C3_Witness ==
  /\ ValidSet
  /\ outcome.status = "ok"
  /\ Cardinality(before) = maxSize
  /\ \E r \in before :
       /\ r.key = call.key.s
       /\ r.timestamp < call.at
       /\ r.value # JSONStringify(call.value)

\* C4: a successful set(key, value) followed by get(key), with no other call
\* in between, returns a value equal to the one written.
C4_RoundTrip ==
  [][(/\ ValidSet
      /\ outcome.status = "ok"
      /\ call'.op = "get"
      /\ call'.key = call.key)
       => (outcome'.status = "ok" /\ outcome'.ret = call.value)]_vars

\* C4 witness: a get returned a nested structure holding a quote character
C4_Witness ==
  /\ call.op = "get"
  /\ outcome.status = "ok"
  /\ outcome.ret = Nested

\* C5: get answers a key without a record with a signal it never gives for a
\* key that has one (a stored null included), and the fetch-item request
\* answers 404 only when the key has no record.
C5_NotFoundOnlyWhenAbsent ==
  /\ (call.op = "get" /\ outcome.status = "ok" /\ outcome.ret = GetReturn(NullItem))
       => call.key.s \notin KeysOf(before)
  /\ (call.op = "GET /:key" /\ outcome.http = 404)
       => call.key.s \notin KeysOf(before)

\* C6: delete of a key that has a record returns true and removes that record
\* and no other; delete of a key without one returns false without an error
\* and leaves the store as it was; a has(key) that follows a delete(key)
\* returns false.
C6_Delete ==
  /\ [](( call.op = "delete" /\ ValidKey(call.key))
         => /\ outcome.status = "ok"
            /\ outcome.ret = Bool(call.key.s \in KeysOf(before))
            /\ rows = {r \in before : r.key # call.key.s}
            /\ call.key.s \notin KeysOf(rows))
  /\ [][(/\ call.op = "delete"
         /\ ValidKey(call.key)
         /\ call'.op = "has"
         /\ call'.key = call.key)
          => (outcome'.status = "ok" /\ outcome'.ret = Bool(FALSE))]_vars

\* C6 witness: a delete took one record out of two
C6_Witness ==
  /\ call.op = "delete"
  /\ outcome.ret = Bool(TRUE)
  /\ Cardinality(before) = 2
  /\ Cardinality(rows) = 1

\* C7: when a delete, a clear or a cleanupOldEntries has removed a record from
\* a store holding exactly maxSize items, the set of a new key that comes next
\* succeeds and stores the key.
C7_RemovalFreesCapacity ==
  (freedBy # "none" /\ ValidSet /\ call.key.s \notin KeysOf(before))
    => (outcome.status = "ok" /\ call.key.s \in KeysOf(rows))

\* C7 witness: a new key was admitted right after a delete on a full store
C7_Witness ==
  /\ freedBy = "delete"
  /\ ValidSet
  /\ call.key.s \notin KeysOf(before)
  /\ outcome.status = "ok"
  /\ Cardinality(rows) = maxSize

\* C8: clear succeeds whatever the store holds and leaves it empty, so that
\* size() is 0; a clear that follows a clear changes nothing.
C8_Clear ==
  /\ [](call.op = "clear"
         => (outcome.status = "ok" /\ rows = {} /\ CacheItemCount(rows) = 0))
  /\ [][(call.op = "clear" /\ Clear) => (rows' = rows /\ outcome' = outcome)]_vars

\* C8 witness: a clear emptied a store of two records
C8_Witness ==
  /\ call.op = "clear"
  /\ Cardinality(before) = 2
  /\ rows = {}

\* C9: cleanupOldEntries(m) with m > 0 removes the records whose timestamp is
\* strictly earlier than now - m minutes, keeps the others unchanged, those
\* exactly at the cutoff included, and returns how many it removed.
C9_CleanupStrictlyOlder ==
  (call.op = "cleanupOldEntries" /\ ~InvalidCall)
    => LET m == IF call.maxAge.t = "number" THEN call.maxAge.n ELSE 60
           cutoff == call.at - m * 60000
       IN /\ outcome.status = "ok"
          /\ rows = {r \in before : r.timestamp >= cutoff}
          /\ outcome.ret = Num(Cardinality({r \in before : r.timestamp < cutoff}))

\* C9 witness: a cleanup removed one record and kept one exactly at the cutoff
C9_Witness ==
  /\ call.op = "cleanupOldEntries"
  /\ outcome.ret = Num(1)
  /\ \E r \in rows : r.timestamp = call.at - call.maxAge.n * 60000

\* C10: a call with invalid input (set without a key or a value,
\* get/delete/has without a key, cleanupOldEntries with maxAgeMinutes <= 0)
\* fails and leaves every record as it was.
C10_InvalidInputNoMutation ==
  InvalidCall => (outcome.status = "error" /\ rows = before)

\* C10 witness: a set with the empty string as key failed on a store with a record
C10_Witness ==
  /\ call.op = "set"
  /\ call.key = Str(<<>>)
  /\ DefinedValue(call.value)
  /\ outcome.status = "error"
  /\ rows # {}

\* C11: a call rejected for invalid input fails with the validation error
\* itself, an outcome other than the wrapped error of a store failure; only
\* store failures are wrapped, and 'Cache is full' is never wrapped.
C11_ErrorKindsDistinct ==
  /\ InvalidCall
       => /\ outcome.status = "error"
          /\ outcome.message \in {<<"Key is required">>, <<"Value is required">>,
                                  <<"Max age must be positive">>}
  /\ (outcome.status = "error" /\ Len(outcome.message) > 1) => ~call.up
  /\ \A i \in 2..Len(outcome.message) : outcome.message[i] # "Cache is full"

\* C12: getStats returns totalItems equal to the number of records, maxSize
\* equal to the configured capacity and remainingSpace equal to
\* max(0, maxSize - size()), which is never negative.
C12_StatsCounts ==
  (call.op = "getStats" /\ outcome.status = "ok")
    => LET size == Cardinality(before) IN
       /\ rows = before
       /\ outcome.stats.totalItems = size
       /\ outcome.stats.maxSize = maxSize
       /\ outcome.stats.remainingSpace = (IF maxSize > size THEN maxSize - size ELSE 0)
       /\ outcome.stats.remainingSpace >= 0

\* C12 witness: getStats ran on a store with one record and room for one more
C12_Witness ==
  /\ call.op = "getStats"
  /\ outcome.stats.totalItems = 1
  /\ outcome.stats.remainingSpace = 1

\* C13: getStats returns the minimum timestamp of the stored records as
\* oldestItemTimestamp and the maximum as newestItemTimestamp, and null for
\* both exactly when the store is empty; otherwise oldest <= newest.
C13_StatsTimestamps ==
  (call.op = "getStats" /\ outcome.status = "ok")
    => LET st == outcome.stats IN
       /\ (st.oldestItemTimestamp = Null) <=> (st.totalItems = 0)
       /\ (st.newestItemTimestamp = Null) <=> (st.totalItems = 0)
       /\ before # {}
            => /\ st.oldestItemTimestamp.t = "number"
               /\ st.newestItemTimestamp.t = "number"
               /\ \E r \in before : r.timestamp = st.oldestItemTimestamp.n
               /\ \E r \in before : r.timestamp = st.newestItemTimestamp.n
               /\ \A r \in before :
                    /\ st.oldestItemTimestamp.n <= r.timestamp
                    /\ r.timestamp <= st.newestItemTimestamp.n
               /\ st.oldestItemTimestamp.n <= st.newestItemTimestamp.n

\* C13 witness: getStats ran on records written at different times
C13_Witness ==
  /\ call.op = "getStats"
  /\ outcome.stats.totalItems = 2
  /\ outcome.stats.oldestItemTimestamp.n < outcome.stats.newestItemTimestamp.n

\* C18: a set call, successful or not, leaves the records of every other key
\* as they were, and a successful set of a new key adds exactly one record.
C18_SetFrame ==
  call.op = "set"
    => /\ {r \in rows : r.key # call.key.s} = {r \in before : r.key # call.key.s}
       /\ (ValidSet /\ outcome.status = "ok" /\ call.key.s \notin KeysOf(before))
            => Cardinality(rows) = Cardinality(before) + 1
       /\ outcome.status # "ok" => rows = before

\* C18 witness: a set overwrote one key of a store that holds another key
C18_Witness ==
  /\ ValidSet
  /\ outcome.status = "ok"
  /\ call.key.s \in KeysOf(before)
  /\ \E r \in before : r.key # call.key.s /\ r.timestamp < call.at

\* C20: get, has, size and getStats leave every record as it was, whether they
\* succeed or fail; get does not refresh the timestamp of the key it reads.
C20_QueriesReadOnly ==
  call.op \in {"get", "has", "size", "getStats"}
    => /\ rows = before
       /\ call.op = "get"
            => \A r \in rows : r.key = call.key.s => (r \in before /\ r.timestamp <= call.at)

\* C20 witness: a get read a record written before the clock last advanced
C20_Witness ==
  /\ call.op = "get"
  /\ outcome.status = "ok"
  /\ \E r \in rows : r.key = call.key.s /\ r.timestamp < call.at

(***************************************************************************)
(* Properties of concurrent set calls (ConcSpec).                          *)
(***************************************************************************)
\* the set call c has returned true
Succeeded(c) == c.pc = "done" /\ c.message = <<>>
\* the set call c has thrown this message
Failed(c, message) == c.pc = "done" /\ c.message = message
\* the set call c read that its key had no record and that the table had room
SawRoomForNewKey(c) ==
  /\ c.looked
  /\ c.existingItem.timestamp = -1
  /\ c.count >= 0
  /\ c.count < maxSize

\* C14: a set call is admitted or refused on the count and the existence it
\* read, whatever the table holds when it writes: a call that writes a new key
\* read a count below maxSize, and only a call that read its key absent and a
\* count of maxSize or more is refused with 'Cache is full'.  So concurrent
\* calls for distinct new keys that all read a count below maxSize are all
\* admitted, and the table can hold more than maxSize keys.
C14_AdmittedOnOwnReads ==
  \A p \in Callers :
    LET c == inflight[p] IN
    /\ ((c.pc = "writing" \/ Succeeded(c)) /\ c.existingItem.timestamp = -1)
         => SawRoomForNewKey(c)
    /\ Failed(c, <<"Cache is full">>)
         <=> (c.pc = "done" /\ c.looked /\ c.existingItem.timestamp = -1
              /\ c.count >= maxSize)

\* C14 witness: two calls for distinct new keys both read room and both
\* returned true, and the table holds more than maxSize keys
C14_Witness ==
  /\ Cardinality(KeysOf(rows)) > maxSize
  /\ \E p, q \in Callers :
       /\ inflight[p].key # inflight[q].key
       /\ Succeeded(inflight[p]) /\ SawRoomForNewKey(inflight[p])
       /\ Succeeded(inflight[q]) /\ SawRoomForNewKey(inflight[q])

\* C15: when a set(key, value) call has returned true, the table has at some
\* moment between the call's start and its return held a record of key with
\* that value.
C15_SuccessWasHeld ==
  \A p \in Callers : Succeeded(inflight[p]) => inflight[p].held

\* C16: when two concurrent set calls for the same key both read that the key
\* has no record and that the table has room, both return true (neither throws
\* a wrapped error) and the key has at most one record.
C16_ConcurrentUpsert ==
  \A p, q \in Callers :
    (/\ p # q
     /\ inflight[p].pc = "done" /\ inflight[q].pc = "done"
     /\ inflight[p].key = inflight[q].key
     /\ SawRoomForNewKey(inflight[p]) /\ SawRoomForNewKey(inflight[q]))
      => /\ Succeeded(inflight[p])
         /\ Succeeded(inflight[q])
         /\ Cardinality({r \in rows : r.key = inflight[p].key.s}) <= 1

\* C17: a set call throws 'Cache is full' only if at some single moment of the
\* call its key had no record and the table held maxSize or more records.
C17_GateSawOneState ==
  \A p \in Callers : Failed(inflight[p], <<"Cache is full">>) => inflight[p].gated

\* C19: each key has at most one record, also under concurrent set calls for
\* the same key; has(key) is true exactly for the keys that have a record, and
\* size() is the number of keys for which has is true.
C19_KeyIdentity ==
  /\ \A k \in KeysOf(rows) : Cardinality({r \in rows : r.key = k}) = 1
  /\ \A k \in KeyNames : HasReturn(CountWhereKey(rows, k)) = Bool(k \in KeysOf(rows))
  /\ CacheItemCount(rows)
       = Cardinality({k \in KeyNames : HasReturn(CountWhereKey(rows, k)) = Bool(TRUE)})

\* C19 witness: of two concurrent calls that both read the same key absent, one
\* created the record and the other's create was rejected
C19_Witness ==
  \E p, q \in Callers :
    /\ p # q
    /\ inflight[p].key = inflight[q].key
    /\ inflight[p].value # inflight[q].value
    /\ SawRoomForNewKey(inflight[p]) /\ SawRoomForNewKey(inflight[q])
    /\ Succeeded(inflight[p])
    /\ inflight[q].pc = "done" /\ ~Succeeded(inflight[q])
    /\ Cardinality({r \in rows : r.key = inflight[p].key.s}) = 1

====
